---- MODULE Spec2Model ----
(***************************************************************************)
(* Model of functions/source/KubeManifest/lambda_function.py: the          *)
(* CloudFormation custom-resource handler that applies a Kubernetes        *)
(* manifest with kubectl and reports back to CloudFormation, guarded by a  *)
(* threading.Timer watchdog.                                               *)
(*                                                                         *)
(* Python values are tagged records; Python strings that the code takes    *)
(* apart (ids, paths, keys, leaves) are sequences of one-character         *)
(* strings.  Exception messages and the Reason of a report are tagged      *)
(* records holding the message text.                                       *)
(***************************************************************************)
EXTENDS Integers, Sequences, FiniteSets, TLC

(* --------------------------- Python values ----------------------------- *)
None == [t |-> "none"]
PStr(s) == [t |-> "str", s |-> s]
PInt(n) == [t |-> "int", n |-> n]
PBool(b) == [t |-> "bool", b |-> b]
PDict(m) == [t |-> "dict", m |-> m]
PList(l) == [t |-> "list", l |-> l]
Msg(text) == [t |-> "msg", text |-> text]

IsStr(v) == v.t = "str"
IsDict(v) == v.t = "dict"
IsList(v) == v.t = "list"

\* Python truthiness of the values the handler tests with `if x:` / `not x`.
Truthy(v) ==
    CASE v.t = "none" -> FALSE
      [] v.t = "str"  -> v.s # <<>>
      [] v.t = "msg"  -> v.text # ""
      [] v.t = "int"  -> v.n # 0
      [] v.t = "bool" -> v.b
      [] v.t = "dict" -> DOMAIN v.m # {}
      [] v.t = "list" -> v.l # <<>>
      [] OTHER -> TRUE

(* ------------------------------ strings -------------------------------- *)
Digits == {"0", "1", "2", "3", "4", "5", "6", "7", "8", "9"}
HexLower == Digits \cup {"a", "b", "c", "d", "e", "f"}
Upper == <<"A","B","C","D","E","F","G","H","I","J","K","L","M",
           "N","O","P","Q","R","S","T","U","V","W","X","Y","Z">>
Lower == <<"a","b","c","d","e","f","g","h","i","j","k","l","m",
           "n","o","p","q","r","s","t","u","v","w","x","y","z">>

Rep(c, n) == [i \in 1..n |-> c]

\* str.lower()
lower(s) ==
    [i \in 1..Len(s) |->
        IF \E j \in 1..26 : Upper[j] = s[i]
        THEN Lower[CHOOSE j \in 1..26 : Upper[j] = s[i]]
        ELSE s[i]]

\* str.startswith(prefix)
startswith(s, prefix) ==
    Len(s) >= Len(prefix) /\ SubSeq(s, 1, Len(prefix)) = prefix

\* str.split(c) for a one-character separator
RECURSIVE split(_, _)
split(s, c) ==
    IF \A i \in 1..Len(s) : s[i] # c
    THEN <<s>>
    ELSE LET i == CHOOSE k \in 1..Len(s) :
                     s[k] = c /\ \A j \in 1..(k - 1) : s[j] # c
         IN  <<SubSeq(s, 1, i - 1)>> \o split(SubSeq(s, i + 1, Len(s)), c)

\* c.join(parts)
RECURSIVE join(_, _)
join(c, parts) ==
    IF parts = <<>> THEN <<>>
    ELSE IF Len(parts) = 1 THEN parts[1]
    ELSE parts[1] \o <<c>> \o join(c, Tail(parts))

\* The character U+00B2 (superscript two), one element of a string: a digit
\* for str.isdigit(), not a decimal digit for int().
SuperscriptTwo == "sup2"

\* str.isdigit(): every character has the Unicode property Digit
isdigit(s) == s # <<>> /\ \A i \in 1..Len(s) : s[i] \in Digits \cup {SuperscriptTwo}

\* int(str) returns (rather than raising ValueError) on decimal digits
isdecimal(s) == s # <<>> /\ \A i \in 1..Len(s) : s[i] \in Digits

\* int(str) where it returns
DigitVal(c) == CHOOSE d \in 0..9 : <<"0","1","2","3","4","5","6","7","8","9">>[d + 1] = c
RECURSIVE int(_)
int(s) == IF s = <<>> THEN 0 ELSE 10 * int(SubSeq(s, 1, Len(s) - 1)) + DigitVal(s[Len(s)])

(* --------------------------- string literals --------------------------- *)
s_metadata == <<"m","e","t","a","d","a","t","a">>
s_name == <<"n","a","m","e">>
s_generateName == <<"g","e","n","e","r","a","t","e","N","a","m","e">>
s_uid == <<"u","i","d">>
s_selfLink == <<"s","e","l","f","L","i","n","k">>
s_resourceVersion == <<"r","e","s","o","u","r","c","e","V","e","r","s","i","o","n">>
s_namespace == <<"n","a","m","e","s","p","a","c","e">>
s_false == <<"f","a","l","s","e">>
s_true == <<"t","r","u","e">>
s_s3scheme == <<"s","3",":","/","/">>
s_s3 == <<"s","3",":">>
s_cfn == <<"c","f","n","-">>
s_LATEST == <<"[","$","L","A","T","E","S","T","]">>

SUCCESS == "SUCCESS"
FAILED == "FAILED"

\* Results of operations that may raise: a value, or the raised message.
Ok(v) == [ok |-> TRUE, v |-> v]
Err(text) == [ok |-> FALSE, err |-> Msg(text)]

(* ------------------------- tree transformation ------------------------- *)
\* An exception leaving set_type, as the value of the expression raising it
ValueError == [t |-> "raise", text |-> "invalid literal for int() with base 10"]
Raised(v) == v.t = "raise"

\* set_type comparing case-sensitively and returning other strings lower-cased
set_type_lowering(input_str) ==
    IF IsStr(input_str)
    THEN IF input_str.s = s_false THEN PBool(FALSE)
         ELSE IF input_str.s = s_true THEN PBool(TRUE)
         ELSE IF isdigit(input_str.s)
         THEN IF isdecimal(input_str.s) THEN PInt(int(input_str.s))
              ELSE ValueError
         ELSE PStr(lower(input_str.s))
    ELSE input_str

\* set_type: the leaf action of fix_types
set_type(input_str) ==
    IF IsStr(input_str)
    THEN IF lower(input_str.s) = s_false THEN PBool(FALSE)
         ELSE IF lower(input_str.s) = s_true THEN PBool(TRUE)
         ELSE IF isdigit(input_str.s)
         THEN IF isdecimal(input_str.s) THEN PInt(int(input_str.s))
              ELSE ValueError
         ELSE input_str
    ELSE input_str

\* The action argument of traverse_modify / traverse_modify_all, by name.
action(a, value) ==
    CASE a = "set_type" -> set_type(value)
      [] a = "wrap" -> PList(<<value>>)
      [] OTHER -> value

\* transformer of traverse_modify taking every path below the target path
transformer_below_target(callback, path, value) ==
    CASE callback.kind = "all" -> action(callback.action, value)
      [] callback.kind = "at" ->
            IF /\ Len(path) >= Len(callback.target_path)
               /\ SubSeq(path, 1, Len(callback.target_path)) = callback.target_path
            THEN action(callback.action, value) ELSE value
      [] OTHER -> value

\* The two closures named `transformer`, and the absent callback.
transformer(callback, path, value) ==
    CASE callback.kind = "all" -> action(callback.action, value)
      [] callback.kind = "at" ->
            IF path = callback.target_path
            THEN action(callback.action, value) ELSE value
      [] OTHER -> value

\* traverse: post-order walk building a transformed copy.  A key extends
\* the path by the key, a list position by a one-element list [idx].  An
\* exception raised by the callback below a node leaves the whole walk.
RECURSIVE traverse(_, _, _)
traverse(obj, path, callback) ==
    LET value ==
          IF IsDict(obj)
          THEN LET items == [k \in DOMAIN obj.m |->
                        traverse(obj.m[k], Append(path, PStr(k)), callback)]
               IN  IF \E k \in DOMAIN items : Raised(items[k])
                   THEN ValueError ELSE PDict(items)
          ELSE IF IsList(obj)
          THEN LET items == [i \in 1..Len(obj.l) |->
                        traverse(obj.l[i],
                                 Append(path, PList(<<PInt(i - 1)>>)), callback)]
               IN  IF \E i \in DOMAIN items : Raised(items[i])
                   THEN ValueError ELSE PList(items)
          ELSE obj
    IN  IF Raised(value) THEN value ELSE transformer(callback, path, value)

traverse_modify_all(obj, a) == traverse(obj, <<>>, [kind |-> "all", action |-> a])

fix_types(manifest) == traverse_modify_all(manifest, "set_type")

(* ------------------------------ addresses ------------------------------ *)
\* A match of \[[0-9]+\] starting at position i of s ends at IndexEnd(s, i);
\* 0 when there is none.
IndexEnd(s, i) ==
    IF /\ s[i] = "["
       /\ \E j \in (i + 2)..Len(s) :
            s[j] = "]" /\ \A k \in (i + 1)..(j - 1) : s[k] \in Digits
    THEN CHOOSE j \in (i + 2)..Len(s) :
            s[j] = "]" /\ \A k \in (i + 1)..(j - 1) : s[k] \in Digits
    ELSE 0

\* Start of the leftmost match of \[[0-9]+\] in s; 0 when there is none.
FirstIndex(s) ==
    IF \E i \in 1..Len(s) : IndexEnd(s, i) # 0
    THEN CHOOSE i \in 1..Len(s) :
            IndexEnd(s, i) # 0 /\ \A j \in 1..(i - 1) : IndexEnd(s, j) = 0
    ELSE 0

\* re.findall(r'\[[0-9]+\]', s)
RECURSIVE re_findall(_)
re_findall(s) ==
    IF FirstIndex(s) = 0 THEN <<>>
    ELSE LET i == FirstIndex(s)
             j == IndexEnd(s, i)
         IN  <<SubSeq(s, i, j)>> \o re_findall(SubSeq(s, j + 1, Len(s)))

\* re.split(r'\[[0-9]+\]', s)
RECURSIVE re_split(_)
re_split(s) ==
    IF FirstIndex(s) = 0 THEN <<s>>
    ELSE LET i == FirstIndex(s)
             j == IndexEnd(s, i)
         IN  <<SubSeq(s, 1, i - 1)>> \o re_split(SubSeq(s, j + 1, Len(s)))

\* str.strip(c) for a one-character c
RECURSIVE strip(_, _)
strip(s, c) ==
    IF s = <<>> THEN s
    ELSE IF s[1] = c THEN strip(Tail(s), c)
    ELSE IF s[Len(s)] = c THEN strip(SubSeq(s, 1, Len(s) - 1), c)
    ELSE s

\* _iter_path from the element `parts` of lists on (counted from 1): the
\* keys of the element, then its index, or [] after the last element.
RECURSIVE iter_path(_, _, _)
iter_path(lists, indexes, parts) ==
    IF parts > Len(lists) THEN <<>>
    ELSE LET keys == split(strip(lists[parts], "."), ".")
         IN  [n \in 1..Len(keys) |-> PStr(keys[n])]
             \o <<IF parts <= Len(indexes) THEN indexes[parts] ELSE PList(<<>>)>>
             \o iter_path(lists, indexes, parts + 1)

\* to_path: the segments of an address; a list is taken as it is.
to_path(path) ==
    IF IsList(path) THEN path.l
    ELSE LET found == re_findall(path.s)
             indexes == [n \in 1..Len(found) |->
                           PList(<<PInt(int(SubSeq(found[n], 2, Len(found[n]) - 1)))>>)]
             yielded == iter_path(re_split(path.s), indexes, 1)
         IN  SubSeq(yielded, 1, Len(yielded) - 1)

traverse_modify(obj, target_path, a) ==
    traverse(obj, <<>>, [kind |-> "at", action |-> a,
                         target_path |-> to_path(target_path)])

(* ---------------------------- manifest naming -------------------------- *)
\* dict with key k set to v
DictSet(m, k, v) == [x \in DOMAIN m \cup {k} |-> IF x = k THEN v ELSE m[x]]

\* generate_name taking the first '/'-separated part of the StackId and of
\* the id (index 0 for 1 and for -1)
generate_name_first_part(event, physical_resource_id) ==
    LET manifest == event.ResourceProperties.Manifest
        parts == split(event.StackId, "/")
    IN  IF Len(parts) < 2 THEN Err("list index out of range")
        ELSE IF ~(IsDict(manifest)) THEN Err("object has no attribute 'keys'")
        ELSE IF s_metadata \notin DOMAIN manifest.m THEN Ok(manifest)
        ELSE LET metadata == manifest.m[s_metadata]
                 stack_name == parts[1]
             IN  IF ~(IsDict(metadata)) THEN Err("object has no attribute 'keys'")
                 ELSE IF s_name \in DOMAIN metadata.m
                         \/ s_generateName \in DOMAIN metadata.m
                 THEN Ok(manifest)
                 ELSE IF Truthy(physical_resource_id)
                 THEN LET segs == split(physical_resource_id.s, "/")
                      IN Ok(PDict(DictSet(manifest.m, s_metadata,
                              PDict(DictSet(metadata.m, s_name,
                                            PStr(segs[1]))))))
                 ELSE Ok(PDict(DictSet(manifest.m, s_metadata,
                              PDict(DictSet(metadata.m, s_generateName,
                                  PStr(s_cfn \o lower(stack_name) \o <<"-">>))))))

generate_name(event, physical_resource_id) ==
    LET manifest == event.ResourceProperties.Manifest
        parts == split(event.StackId, "/")
    IN  IF Len(parts) < 2 THEN Err("list index out of range")
        ELSE IF ~(IsDict(manifest)) THEN Err("object has no attribute 'keys'")
        ELSE IF s_metadata \notin DOMAIN manifest.m THEN Ok(manifest)
        ELSE LET metadata == manifest.m[s_metadata]
                 stack_name == parts[2]
             IN  IF ~(IsDict(metadata)) THEN Err("object has no attribute 'keys'")
                 ELSE IF s_name \in DOMAIN metadata.m
                         \/ s_generateName \in DOMAIN metadata.m
                 THEN Ok(manifest)
                 ELSE IF Truthy(physical_resource_id)
                 THEN LET segs == split(physical_resource_id.s, "/")
                      IN Ok(PDict(DictSet(manifest.m, s_metadata,
                              PDict(DictSet(metadata.m, s_name,
                                            PStr(segs[Len(segs)]))))))
                 ELSE Ok(PDict(DictSet(manifest.m, s_metadata,
                              PDict(DictSet(metadata.m, s_generateName,
                                  PStr(s_cfn \o lower(stack_name) \o <<"-">>))))))

(* ---------------------------- output extraction ------------------------ *)
OutputKeys == {s_uid, s_selfLink, s_resourceVersion, s_namespace, s_name}

build_output(kube_response) ==
    IF ~(IsDict(kube_response)) THEN Err("indices must be integers")
    ELSE IF s_metadata \notin DOMAIN kube_response.m THEN Err("'metadata'")
    ELSE LET metadata == kube_response.m[s_metadata]
         IN  IF ~(IsDict(metadata)) THEN Err("object has no attribute 'keys'")
             ELSE Ok(PDict([key \in OutputKeys \cap DOMAIN metadata.m |->
                              metadata.m[key]]))

\* json.loads of the captured tool output
json_loads(text) ==
    IF text.t = "json" THEN Ok(text.v) ELSE Err("Expecting value")

(* ------------------------------ configuration -------------------------- *)
\* get_config_details accepting three '/'-separated parts (no key)
get_config_details_short(event) ==
    LET s3_uri_parts == split(event.ResourceProperties.KubeConfigPath, "/")
    IN  IF Len(s3_uri_parts) < 3
           \/ SubSeq(s3_uri_parts, 1, 2) # <<s_s3, <<>> >>
        THEN Err("Invalid KubeConfigPath, must be in the format s3://bucket-name/path/to/config")
        ELSE Ok([bucket |-> s3_uri_parts[3],
                 key |-> join("/", SubSeq(s3_uri_parts, 4, Len(s3_uri_parts))),
                 kms_context |-> event.ResourceProperties.KubeConfigKmsContext])

get_config_details(event) ==
    LET s3_uri_parts == split(event.ResourceProperties.KubeConfigPath, "/")
    IN  IF Len(s3_uri_parts) < 4
           \/ SubSeq(s3_uri_parts, 1, 2) # <<s_s3, <<>> >>
        THEN Err("Invalid KubeConfigPath, must be in the format s3://bucket-name/path/to/config")
        ELSE Ok([bucket |-> s3_uri_parts[3],
                 key |-> join("/", SubSeq(s3_uri_parts, 4, Len(s3_uri_parts))),
                 kms_context |-> event.ResourceProperties.KubeConfigKmsContext])

(* ------------------------------ fallback ids --------------------------- *)
\* ^[0-9]{4}\/[0-9]{2}\/[0-9]{2}\/\[\$LATEST\][a-f0-9]{32}$ without the
\* line-end case of `$`
FallbackBody(s) ==
    /\ Len(s) = 52
    /\ \A i \in {1, 2, 3, 4, 6, 7, 9, 10} : s[i] \in Digits
    /\ \A i \in {5, 8, 11} : s[i] = "/"
    /\ SubSeq(s, 12, 20) = s_LATEST
    /\ \A i \in 21..52 : s[i] \in HexLower

\* the pattern with the hash in upper-case hex, [A-F0-9]{32}
re_search_fallback_upper(s) ==
    /\ Len(s) = 52
    /\ \A i \in {1, 2, 3, 4, 6, 7, 9, 10} : s[i] \in Digits
    /\ \A i \in {5, 8, 11} : s[i] = "/"
    /\ SubSeq(s, 12, 20) = s_LATEST
    /\ \A i \in 21..52 : s[i] \in Digits \cup {"A", "B", "C", "D", "E", "F"}

\* re.search(pattern, s) is not None; `$` also matches before a final newline
re_search_fallback(s) ==
    \/ FallbackBody(s)
    \/ Len(s) = 53 /\ s[53] = "\n" /\ FallbackBody(SubSeq(s, 1, 52))

(* -------------------------------- reporting ---------------------------- *)
\* send without the fallback to the request's own PhysicalResourceId
send_no_event_id(event, context, response_status, response_data, physical_resource_id, reason) ==
    LET body ==
          [Status |-> response_status,
           Reason |-> IF ~Truthy(reason)
                      THEN [t |-> "default", stream |-> context.log_stream_name]
                      ELSE reason,
           PhysicalResourceId |->
               IF Truthy(physical_resource_id) THEN physical_resource_id
               ELSE PStr(context.log_stream_name),
           StackId |-> event.StackId,
           RequestId |-> event.RequestId,
           LogicalResourceId |-> event.LogicalResourceId]
    IN  IF Truthy(response_data) /\ IsDict(response_data)
        THEN body @@ ("Data" :> response_data)
        ELSE body

\* send: the response body put to the ResponseURL
send(event, context, response_status, response_data, physical_resource_id, reason) ==
    LET body ==
          [Status |-> response_status,
           Reason |-> IF ~Truthy(reason)
                      THEN [t |-> "default", stream |-> context.log_stream_name]
                      ELSE reason,
           PhysicalResourceId |->
               IF Truthy(physical_resource_id) THEN physical_resource_id
               ELSE IF "PhysicalResourceId" \in DOMAIN event
               THEN event.PhysicalResourceId
               ELSE PStr(context.log_stream_name),
           StackId |-> event.StackId,
           RequestId |-> event.RequestId,
           LogicalResourceId |-> event.LogicalResourceId]
    IN  IF Truthy(response_data) /\ IsDict(response_data)
        THEN body @@ ("Data" :> response_data)
        ELSE body

\* timeout passing the execution-context identifier as the physical id
timeout_with_context_id(event, context) ==
    send(event, context, FAILED, PDict(<<>>), PStr(context.log_stream_name), None)

\* timeout: the watchdog's report
timeout(event, context) == send(event, context, FAILED, PDict(<<>>), None, None)

(* ------------------------------- inputs -------------------------------- *)
\* An execution-context identifier (context.log_stream_name)
LogStreamName ==
    <<"2","0","2","6","/","1","1","/","0","2","/">> \o s_LATEST \o Rep("a", 32)
\* A Kubernetes self link
SelfLinkX == <<"/","a","p","i","/","p","o","d","s","/","x">>
\* An id that is neither: a log stream of a published function version
VersionStream ==
    <<"2","0","2","6","/","1","1","/","0","2","/","[","1","]">> \o Rep("a", 32)

PhysicalIds == {PStr(SelfLinkX), PStr(LogStreamName), PStr(VersionStream)}

KubeConfigPaths ==
    { <<"s","3",":","/","/","b","/","k">>,
      <<"s","3",":","/","/","b">>,
      <<"h",":","/","/","b","/","k">> }

StackIds == { <<"a","r","n","/","M","y","S","t","/","u","1">> }

Manifests ==
    { PDict((s_metadata :> PDict(<<>>))),
      PDict((s_metadata :> PDict((s_name :> PStr(<<"x">>))))),
      PDict((<<"k">> :> PList(<<PStr(<<"0","7">>), PStr(<<"T","r","u","e">>)>>))),
      PDict((<<"k">> :> PStr(<<"1",SuperscriptTwo>>))),
      PStr(<<"x">>) }

RequestTypes == {"Create", "Update", "Delete"}

BaseEvents ==
    { [RequestType |-> rt,
       ResourceProperties |-> [Manifest |-> m, KubeConfigPath |-> p,
                               KubeConfigKmsContext |-> "ctx"],
       StackId |-> sid, RequestId |-> "req", LogicalResourceId |-> "res",
       ResponseURL |-> "url"] :
      rt \in RequestTypes, m \in Manifests, p \in KubeConfigPaths, sid \in StackIds }

Events ==
    BaseEvents \cup
    { e @@ ("PhysicalResourceId" :> id) : e \in BaseEvents, id \in PhysicalIds }

Contexts == { [log_stream_name |-> LogStreamName] }

\* Captured output of a kubectl run that exits 0
ToolOutputs ==
    { [t |-> "text"],
      [t |-> "json", v |-> PDict((<<"k">> :> PStr(<<"P">>)))],
      [t |-> "json", v |-> PDict((s_metadata :> PDict(<<>>)))],
      [t |-> "json", v |-> PDict((s_metadata :>
            PDict((s_uid :> PStr(<<"u","1">>)) @@ (s_name :> PStr(<<"x">>)))))],
      [t |-> "json", v |-> PDict((s_metadata :>
            PDict((s_uid :> PStr(<<"u","1">>)) @@ (s_name :> PStr(<<"x">>))
                  @@ (s_selfLink :> PStr(SelfLinkX))
                  @@ (<<"l">> :> PStr(<<"z">>)))))] }

\* Captured output of a kubectl run that exits non-zero
ToolErrors == {"", "Error from server"}

ToolResults ==
    { [returncode |-> 0, output |-> o] : o \in ToolOutputs } \cup
    { [returncode |-> 1, output |-> o] : o \in ToolErrors }

(* -------------------------------- state -------------------------------- *)
VARIABLES
    event,                 \* the request of the running invocation
    context,               \* its execution context
    pc,                    \* position of the main path
    status, response_data, physical_resource_id, error_message,
    manifest,              \* the normalized manifest written to disk
    outp,                  \* the output run_command returned, None before
    timer_pc,              \* position of the threading.Timer thread
    finished,              \* the timer's `finished` event
    reports,               \* calls of send in this invocation, in order
    commands,              \* kubectl commands issued in this invocation
    cluster,               \* objects in the cluster: "prev", "cur" by creator
    prev,                  \* what the orchestrator keeps of the last invocation
    input,                 \* the argument a function is about to be called on
    calls                  \* calls of the functions outside a handler run

locals == <<status, response_data, physical_resource_id, error_message,
           manifest, outp>>
handler == <<event, context, pc, status, response_data, physical_resource_id,
             error_message, manifest, outp, timer_pc, finished, reports,
             commands, cluster, prev>>
unit == <<input, calls>>
vars == <<handler, unit>>

NoEvent == [RequestType |-> "None"]
NoPrev == [RequestType |-> "None", hadId |-> FALSE, reported |-> None,
           status |-> "None", by |-> "None"]

\* No invocation is running.
Idle ==
    /\ event = NoEvent
    /\ context = [log_stream_name |-> <<>>]
    /\ pc = "idle"
    /\ status = SUCCESS
    /\ response_data = PDict(<<>>)
    /\ physical_resource_id = None
    /\ error_message = None
    /\ manifest = None
    /\ outp = None
    /\ timer_pc = "none"
    /\ finished = FALSE
    /\ reports = <<>>
    /\ commands = <<>>
    /\ cluster = {}
    /\ prev = NoPrev

Init ==
    /\ Idle
    /\ input = None
    /\ calls = <<>>

\* What the orchestrator records of an invocation: its first report.
Summary ==
    IF event = NoEvent THEN NoPrev
    ELSE [RequestType |-> event.RequestType,
          hadId |-> "PhysicalResourceId" \in DOMAIN event,
          reported |-> IF reports = <<>> THEN None
                       ELSE reports[1].body.PhysicalResourceId,
          status |-> IF reports = <<>> THEN "None" ELSE reports[1].body.Status,
          by |-> IF reports = <<>> THEN "None" ELSE reports[1].by]

(* ----------------------------- main path ------------------------------- *)
\* Invoke with the timer constructed but never started
Invoke_unstarted(e, ctx) ==
    /\ pc = "idle"
    /\ event' = e
    /\ context' = ctx
    /\ timer_pc' = "none"
    /\ finished' = FALSE
    /\ status' = SUCCESS
    /\ response_data' = PDict(<<>>)
    /\ physical_resource_id' = None
    /\ error_message' = None
    /\ pc' = "validate"
    /\ UNCHANGED <<manifest, outp, reports, commands, cluster, prev>>
    /\ UNCHANGED unit

\* lambda_handler entry: arm the watchdog, initialise the locals
Invoke(e, ctx) ==
    /\ pc = "idle"
    /\ event' = e
    /\ context' = ctx
    /\ timer_pc' = "waiting"
    /\ finished' = FALSE
    /\ status' = SUCCESS
    /\ response_data' = PDict(<<>>)
    /\ physical_resource_id' = None
    /\ error_message' = None
    /\ pc' = "validate"
    /\ UNCHANGED <<manifest, outp, reports, commands, cluster, prev>>
    /\ UNCHANGED unit

\* the except block without `status = FAILED`
Raise_keeps_status(msg) ==
    /\ status' = status
    /\ error_message' = msg
    /\ pc' = "finally"

\* except Exception as e: status = FAILED; error_message = str(e)
Raise(msg) ==
    /\ status' = FAILED
    /\ error_message' = msg
    /\ pc' = "finally"

\* lines 207-210: the scheme test and get_config_details
Validate ==
    /\ pc = "validate"
    /\ IF ~startswith(event.ResourceProperties.KubeConfigPath, s_s3scheme)
       THEN Raise(Msg("KubeConfigPath must be a valid s3 URI (eg.: s3://my-bucket/my-key.txt"))
       ELSE IF ~get_config_details(event).ok
       THEN Raise(get_config_details(event).err)
       ELSE /\ pc' = "create_kubeconfig"
            /\ UNCHANGED <<status, error_message>>
    /\ UNCHANGED <<event, context, response_data, physical_resource_id, manifest,
                   outp, timer_pc, finished, reports, commands, cluster, prev>>
    /\ UNCHANGED unit

\* create_kubeconfig: fetch from S3, decrypt with KMS.  Either call may raise;
\* neither has a timeout, so the step may also never be taken.
create_kubeconfig(outcome) ==
    /\ pc = "create_kubeconfig"
    /\ CASE outcome = "s3" -> Raise(Msg("Failed to fetch KubeConfig from S3: error"))
         [] outcome = "kms" -> Raise(Msg("An error occurred when calling the Decrypt operation"))
         [] OTHER -> /\ pc' = "normalize"
                     /\ UNCHANGED <<status, error_message>>
    /\ UNCHANGED <<event, context, response_data, physical_resource_id, manifest,
                   outp, timer_pc, finished, reports, commands, cluster, prev>>
    /\ UNCHANGED unit

\* lines 213-217: take the request's id, name the manifest, coerce its types
Normalize ==
    /\ pc = "normalize"
    /\ LET id == IF "PhysicalResourceId" \in DOMAIN event
                 THEN event.PhysicalResourceId ELSE physical_resource_id
           named == generate_name(event, id)
       IN  /\ physical_resource_id' = id
           /\ IF ~named.ok
              THEN Raise(named.err) /\ UNCHANGED manifest
              ELSE IF Raised(fix_types(named.v))
              THEN Raise(Msg(fix_types(named.v).text)) /\ UNCHANGED manifest
              ELSE /\ manifest' = fix_types(named.v)
                   /\ pc' = "dispatch"
                   /\ UNCHANGED <<status, error_message>>
    /\ UNCHANGED <<event, context, response_data, outp,
                   timer_pc, finished, reports, commands, cluster, prev>>
    /\ UNCHANGED unit

\* the Update branch calling `kubectl create` like the Create branch
Mode_update_creates(rt) ==
    CASE rt = "Create" -> "create"
      [] rt = "Update" -> "create"
      [] rt = "Delete" -> "delete"

\* The kubectl mode of a request kind (lines 218-227)
Mode(rt) ==
    CASE rt = "Create" -> "create"
      [] rt = "Update" -> "apply"
      [] rt = "Delete" -> "delete"

\* line 226 with the `not` left out
must_delete_inverted(id) == re_search_fallback(id.s)

\* line 226: `if not re.search(<fallback pattern>, physical_resource_id)`
must_delete(id) == ~re_search_fallback(id.s)

\* Dispatch with a pattern test that takes a missing id for a foreign id
\* (`re.search(pattern, physical_resource_id or "")`)
Dispatch_none_as_foreign ==
    /\ pc = "dispatch"
    /\ IF event.RequestType = "Delete"
          /\ IsStr(physical_resource_id)
          /\ ~must_delete(physical_resource_id)
       THEN /\ pc' = "finally"
            /\ UNCHANGED <<status, error_message, commands>>
       ELSE /\ commands' = Append(commands,
                               [mode |-> Mode(event.RequestType), manifest |-> manifest])
            /\ pc' = "run_command"
            /\ UNCHANGED <<status, error_message>>
    /\ UNCHANGED <<event, context, response_data, physical_resource_id, manifest,
                   outp, timer_pc, finished, reports, cluster, prev>>
    /\ UNCHANGED unit

\* lines 218-229 up to the start of the subprocess: which command, if any
Dispatch ==
    /\ pc = "dispatch"
    /\ IF event.RequestType = "Delete" /\ ~IsStr(physical_resource_id)
       THEN Raise(Msg("expected string or bytes-like object")) /\ UNCHANGED commands
       ELSE IF event.RequestType = "Delete"
               /\ ~must_delete(physical_resource_id)
       THEN /\ pc' = "finally"
            /\ UNCHANGED <<status, error_message, commands>>
       ELSE /\ commands' = Append(commands,
                               [mode |-> Mode(event.RequestType), manifest |-> manifest])
            /\ pc' = "run_command"
            /\ UNCHANGED <<status, error_message>>
    /\ UNCHANGED <<event, context, response_data, physical_resource_id, manifest,
                   outp, timer_pc, finished, reports, cluster, prev>>
    /\ UNCHANGED unit

\* The object a command addresses: the one the previous invocation created
\* when the request carries the id recorded for it, else one of its own.
Addressed ==
    IF /\ "PhysicalResourceId" \in DOMAIN event
       /\ prev.reported = event.PhysicalResourceId
       /\ "prev" \in cluster
    THEN "prev" ELSE "cur"

\* What a kubectl run that exits 0 does to the cluster
Effect(mode) ==
    CASE mode = "create" -> cluster \cup {"cur"}
      [] mode = "apply" -> cluster \cup {Addressed}
      [] mode = "delete" -> cluster \ {Addressed}

\* run_command returns (lines 61-69) and the handler digests the output
\* (lines 220-221, 224).  The subprocess has no timeout, so the step may
\* never be taken.
run_command(result) ==
    /\ pc = "run_command"
    /\ IF result.returncode # 0
       THEN /\ Raise(Msg(result.output))
            /\ UNCHANGED <<cluster, response_data, physical_resource_id, outp>>
       ELSE /\ cluster' = Effect(commands[Len(commands)].mode)
            /\ outp' = result.output
            /\ IF event.RequestType = "Delete"
               THEN /\ pc' = "finally"
                    /\ UNCHANGED <<status, error_message, response_data,
                                   physical_resource_id>>
               ELSE LET parsed == json_loads(result.output)
                        built == build_output(parsed.v)
                    IN  IF ~parsed.ok
                        THEN Raise(parsed.err)
                             /\ UNCHANGED <<response_data, physical_resource_id>>
                        ELSE IF ~built.ok
                        THEN Raise(built.err)
                             /\ UNCHANGED <<response_data, physical_resource_id>>
                        ELSE /\ response_data' = built.v
                             /\ IF event.RequestType = "Create"
                                THEN IF s_selfLink \in DOMAIN built.v.m
                                     THEN /\ physical_resource_id' = built.v.m[s_selfLink]
                                          /\ pc' = "finally"
                                          /\ UNCHANGED <<status, error_message>>
                                     ELSE Raise(Msg("'selfLink'"))
                                          /\ UNCHANGED physical_resource_id
                                ELSE /\ pc' = "finally"
                                     /\ UNCHANGED <<status, error_message,
                                                    physical_resource_id>>
    /\ UNCHANGED <<event, context, manifest, timer_pc, finished, reports,
                   commands, prev>>
    /\ UNCHANGED unit

\* the finally block without timer.cancel()
Finally_no_cancel ==
    /\ pc = "finally"
    /\ pc' = "send"
    /\ UNCHANGED <<event, context, locals, timer_pc, finished, reports, commands,
                   cluster, prev>>
    /\ UNCHANGED unit

\* finally: timer.cancel()
Finally ==
    /\ pc = "finally"
    /\ finished' = TRUE
    /\ pc' = "send"
    /\ UNCHANGED <<event, context, locals, timer_pc, reports, commands,
                   cluster, prev>>
    /\ UNCHANGED unit

\* finally: send(event, context, status, response_data, physical_resource_id,
\*               reason=error_message)
Send ==
    /\ pc = "send"
    /\ reports' = Append(reports,
          [by |-> "main",
           body |-> send(event, context, status, response_data,
                         physical_resource_id, error_message)])
    /\ pc' = "done"
    /\ UNCHANGED <<event, context, locals, timer_pc, finished, commands,
                   cluster, prev>>
    /\ UNCHANGED unit

(* ------------------------------ watchdog ------------------------------- *)
\* threading.Timer.run: the wait ends with `finished` unset
TimerExpire ==
    /\ timer_pc = "waiting"
    /\ ~finished
    /\ timer_pc' = "running"
    /\ UNCHANGED <<event, context, pc, locals, finished, reports, commands,
                   cluster, prev>>
    /\ UNCHANGED unit

\* threading.Timer.run: the wait ends because cancel() set `finished`
TimerCancelled ==
    /\ timer_pc = "waiting"
    /\ finished
    /\ timer_pc' = "done"
    /\ UNCHANGED <<event, context, pc, locals, finished, reports, commands,
                   cluster, prev>>
    /\ UNCHANGED unit

\* threading.Timer.run calls timeout(event, context), then sets `finished`
Timeout ==
    /\ timer_pc = "running"
    /\ reports' = Append(reports, [by |-> "watchdog", body |-> timeout(event, context)])
    /\ timer_pc' = "done"
    /\ finished' = TRUE
    /\ UNCHANGED <<event, context, pc, locals, commands, cluster, prev>>
    /\ UNCHANGED unit

\* The invocation's time budget, of which the watchdog's interval is all but
\* 0.5 s, runs out with the main path unfinished: the runtime ends it.  A
\* command in flight may or may not have taken effect.
Deadline(effect) ==
    /\ timer_pc = "done"
    /\ \E i \in 1..Len(reports) : reports[i].by = "watchdog"
    /\ pc \notin {"idle", "done", "killed"}
    /\ pc' = "killed"
    /\ cluster' = IF pc = "run_command" /\ effect
                  THEN Effect(commands[Len(commands)].mode) ELSE cluster
    /\ UNCHANGED <<event, context, locals, timer_pc, finished, reports,
                   commands, prev>>
    /\ UNCHANGED unit

\* The invocation is over (the handler returned or the runtime ended it) and
\* both threads are done: the orchestrator keeps the first report, the
\* process state is gone, the cluster stays.  Objects older than the last
\* invocation's are no longer tracked.
Return ==
    /\ pc \in {"done", "killed"}
    /\ timer_pc = "done"
    /\ prev' = Summary
    /\ cluster' = IF "cur" \in cluster THEN {"prev"} ELSE {}
    /\ event' = NoEvent
    /\ context' = [log_stream_name |-> <<>>]
    /\ pc' = "idle"
    /\ status' = SUCCESS
    /\ response_data' = PDict(<<>>)
    /\ physical_resource_id' = None
    /\ error_message' = None
    /\ manifest' = None
    /\ outp' = None
    /\ timer_pc' = "none"
    /\ finished' = FALSE
    /\ reports' = <<>>
    /\ commands' = <<>>
    /\ UNCHANGED unit

(* ---------------------------- specification ---------------------------- *)
Next ==
    \/ \E e \in Events, ctx \in Contexts : Invoke(e, ctx)
    \/ Validate
    \/ \E outcome \in {"ok", "s3", "kms"} : create_kubeconfig(outcome)
    \/ Normalize
    \/ Dispatch
    \/ \E result \in ToolResults : run_command(result)
    \/ Finally
    \/ Send
    \/ TimerExpire
    \/ TimerCancelled
    \/ Timeout
    \/ \E effect \in BOOLEAN : Deadline(effect)
    \/ Return

Spec == Init /\ [][Next]_vars

\* Scheduling: the timer thread runs when its wait ends, and the main path,
\* once it has cancelled the timer, goes on to call send.  Nothing is assumed
\* of the other main-path steps: the calls that leave the process (S3, KMS,
\* the kubectl subprocess) have no timeout and may never return.
Fairness ==
    /\ WF_vars(Send)
    /\ WF_vars(TimerExpire)
    /\ WF_vars(Timeout)

FairSpec == Spec /\ Fairness

(* ------------------- the functions called on their own ------------------ *)
\* Nesting of the values the functions are called on
MaxDepth == 3

\* Scalars and empty containers at the leaves of those values
Leaves ==
    { PStr(s_true), PStr(<<"F","A","L","S","E">>), PStr(<<"0","0","7">>),
      PStr(<<"4","2">>), PStr(<<"x">>), PStr(<<>>), PStr(<<"4",".","5">>),
      PStr(<<"1",SuperscriptTwo>>), PInt(7), PBool(TRUE), None,
      PDict(<<>>), PList(<<>>) }

\* Keys of their maps, and the value beside the one being nested
Keys == { <<"a">>, <<"0","7">> }
Sibling == PStr(s_true)

RECURSIVE Depth(_)
Depth(v) ==
    IF IsDict(v) /\ DOMAIN v.m # {}
    THEN 1 + (CHOOSE d \in 0..MaxDepth + 1 :
                 /\ \E k \in DOMAIN v.m : Depth(v.m[k]) = d
                 /\ \A k \in DOMAIN v.m : Depth(v.m[k]) <= d)
    ELSE IF IsList(v) /\ v.l # <<>>
    THEN 1 + (CHOOSE d \in 0..MaxDepth + 1 :
                 /\ \E i \in 1..Len(v.l) : Depth(v.l[i]) = d
                 /\ \A i \in 1..Len(v.l) : Depth(v.l[i]) <= d)
    ELSE 0

\* The argument becomes an element of a list: alone, first or last.
InList(pos) ==
    /\ calls = <<>>
    /\ Depth(input) < MaxDepth
    /\ input' = CASE pos = "only" -> PList(<<input>>)
                  [] pos = "first" -> PList(<<input, Sibling>>)
                  [] pos = "last" -> PList(<<Sibling, input>>)
    /\ UNCHANGED <<handler, calls>>

\* The argument becomes the value at key k of a map, alone (k2 = k) or
\* beside a value at key k2.
InDict(k, k2) ==
    /\ calls = <<>>
    /\ Depth(input) < MaxDepth
    /\ input' = IF k2 = k THEN PDict((k :> input))
                ELSE PDict((k :> input) @@ (k2 :> Sibling))
    /\ UNCHANGED <<handler, calls>>

\* fix_types(manifest)
Call_fix_types ==
    /\ calls = <<>>
    /\ calls' = <<[fn |-> "fix_types", args |-> <<input>>,
                   ret |-> fix_types(input)]>>
    /\ UNCHANGED <<handler, input>>

\* fix_types(fix_types(manifest)), when the first call returned
Call_fix_types_again ==
    /\ Len(calls) = 1
    /\ calls[1].fn = "fix_types"
    /\ ~Raised(calls[1].ret)
    /\ calls' = Append(calls, [fn |-> "fix_types", args |-> <<calls[1].ret>>,
                               ret |-> fix_types(calls[1].ret)])
    /\ UNCHANGED <<handler, input>>

\* Roots of the values traverse_modify is called on
Roots == { PStr(s_true), PStr(<<"x">>), PInt(7), PDict(<<>>), PList(<<>>) }

\* Its target paths: address strings, and lists of segments
key_a == PStr(<<"a">>)
key_07 == PStr(<<"0","7">>)
idx(n) == PList(<<PInt(n)>>)
TargetPaths ==
    { PStr(<<>>), PStr(<<"a">>), PStr(<<"a","[","0","]">>),
      PStr(<<"a","[","0","]","[","1","]">>), PStr(<<"a",".","0","7">>),
      PStr(<<"a","[","1","]",".","a">>),
      PList(<<>>), PList(<<key_a>>), PList(<<key_07>>), PList(<<PStr(<<"x">>)>>),
      PList(<<key_a, idx(0)>>), PList(<<key_a, idx(0), idx(1)>>),
      PList(<<idx(0)>>), PList(<<idx(2)>>),
      PList(<<key_a, key_a, key_a, key_a>>) }

\* Its actions
Actions == {"set_type", "wrap"}

\* traverse_modify(obj, target_path, action)
Call_traverse_modify(target_path, a) ==
    /\ calls = <<>>
    /\ calls' = <<[fn |-> "traverse_modify", args |-> <<input, target_path, a>>,
                   ret |-> traverse_modify(input, target_path, a)]>>
    /\ UNCHANGED <<handler, input>>

WalkInit ==
    /\ Idle
    /\ input \in Roots
    /\ calls = <<>>

WalkNext ==
    \/ \E pos \in {"only", "first", "last"} : InList(pos)
    \/ \E k \in Keys, k2 \in Keys : InDict(k, k2)
    \/ \E target_path \in TargetPaths, a \in Actions :
          Call_traverse_modify(target_path, a)

WalkSpec == WalkInit /\ [][WalkNext]_vars

\* Characters and length of the address strings to_path is called on
PathChars == {"a", ".", "[", "]", "0"}
MaxText == 6

\* The address string gets one more character.
Type(c) ==
    /\ calls = <<>>
    /\ Len(input.s) < MaxText
    /\ input' = PStr(Append(input.s, c))
    /\ UNCHANGED <<handler, calls>>

\* to_path(path)
Call_to_path ==
    /\ calls = <<>>
    /\ calls' = <<[fn |-> "to_path", args |-> <<input>>, ret |-> to_path(input)]>>
    /\ UNCHANGED <<handler, input>>

PathInit ==
    /\ Idle
    /\ input = PStr(<<>>)
    /\ calls = <<>>

PathNext ==
    \/ \E c \in PathChars : Type(c)
    \/ Call_to_path

PathSpec == PathInit /\ [][PathNext]_vars

\* The manifests generate_name is called on, their keys, the stack ids and
\* the ids of earlier invocations
NamerLeaves == { PStr(<<"x">>), PDict(<<>>), None }
NamerKeys == { s_metadata, s_name, s_generateName }
NamerStackIds == StackIds \cup { <<"M","y","S","t">>, <<"a","/","B","7","/">> }
NamerIds ==
    { None, PStr(<<>>), PStr(SelfLinkX), PStr(<<"x","y">>), PStr(<<"/","a","/">>) }

\* generate_name(event, physical_resource_id)
Call_generate_name(stack_id, physical_id) ==
    /\ calls = <<>>
    /\ calls' = <<[fn |-> "generate_name",
                   args |-> <<input, stack_id, physical_id>>,
                   ret |-> generate_name(
                             [ResourceProperties |-> [Manifest |-> input],
                              StackId |-> stack_id], physical_id)]>>
    /\ UNCHANGED <<handler, input>>

NamerInit ==
    /\ Idle
    /\ input \in NamerLeaves
    /\ calls = <<>>

NamerNext ==
    \/ \E k \in NamerKeys, k2 \in NamerKeys : InDict(k, k2)
    \/ \E stack_id \in NamerStackIds, physical_id \in NamerIds :
          Call_generate_name(stack_id, physical_id)

NamerSpec == NamerInit /\ [][NamerNext]_vars

CoerceInit ==
    /\ Idle
    /\ input \in Leaves
    /\ calls = <<>>

CoerceNext ==
    \/ \E pos \in {"only", "first", "last"} : InList(pos)
    \/ \E k \in Keys, k2 \in Keys : InDict(k, k2)
    \/ Call_fix_types
    \/ Call_fix_types_again

CoerceSpec == CoerceInit /\ [][CoerceNext]_vars

TypeOK ==
    /\ pc \in {"idle", "validate", "create_kubeconfig", "normalize", "dispatch",
               "run_command", "finally", "send", "done", "killed"}
    /\ timer_pc \in {"none", "waiting", "running", "done"}
    /\ finished \in BOOLEAN
    /\ status \in {SUCCESS, FAILED}
    /\ cluster \subseteq {"prev", "cur"}
    /\ Len(reports) <= 2
    /\ Len(commands) <= 1
    /\ \A i \in 1..Len(reports) : reports[i].body.PhysicalResourceId \in PhysicalIds

(* ======================================================================= *)
(*                               Properties                                *)
(* ======================================================================= *)
Active == pc \notin {"idle"}
Over == pc \in {"done", "killed"} /\ timer_pc = "done"
HasId == "PhysicalResourceId" \in DOMAIN event
MainReports == SelectSeq(reports, LAMBDA r : r.by = "main")
WatchdogReports == SelectSeq(reports, LAMBDA r : r.by = "watchdog")
HasData(body) == "Data" \in DOMAIN body
\* The physical id a report falls back to: the request's, else the log stream
RequestOrContextId ==
    IF HasId THEN event.PhysicalResourceId ELSE PStr(context.log_stream_name)

(* C1: in every execution of one invocation, under every interleaving of   *)
(* the watchdog with the main path, exactly one report is sent: never two, *)
(* and not zero once the invocation is over.                               *)
C1_ExactlyOneReport ==
    /\ Len(reports) <= 1
    /\ Over => Len(reports) = 1

(* C2: every invocation eventually sends a report; while the main path is  *)
(* stuck in a call that leaves the process (S3/KMS, kubectl) the watchdog  *)
(* sends a FAILED report, and the step in which it does so leaves the main *)
(* path where it is and the command in flight untouched.                   *)
Blocked == pc \in {"create_kubeconfig", "run_command"}
WatchdogFailed ==
    \E i \in 1..Len(reports) :
        reports[i].by = "watchdog" /\ reports[i].body.Status = FAILED
C2_EventuallyReported ==
    /\ Active ~> (reports # <<>>)
    /\ Blocked ~> (~Blocked \/ WatchdogFailed)
    /\ [][Len(WatchdogReports') > Len(WatchdogReports)
            => /\ pc' = pc
               /\ commands' = commands
               /\ cluster' = cluster]_vars

\* The kubectl command is still in flight and the watchdog has reported.
C2_Witness ==
    /\ pc = "run_command"
    /\ Len(commands) = 1
    /\ reports # <<>>
    /\ reports[1].by = "watchdog"
    /\ reports[1].body.Status = FAILED

(* C3: when a Delete carrying the id that the preceding Create reported     *)
(* skips the external delete because the id has the fallback shape, no      *)
(* object created by that Create exists in the cluster.                     *)
DeleteSkipped ==
    /\ event.RequestType = "Delete"
    /\ pc \in {"finally", "send", "done"}
    /\ manifest # None
    /\ error_message = None
    /\ commands = <<>>
C3_FallbackOnlyWhenNothingCreated ==
    (/\ prev.RequestType = "Create"
     /\ HasId
     /\ event.PhysicalResourceId = prev.reported
     /\ DeleteSkipped)
    => "prev" \notin cluster

(* C4: for a Create whose create command exits 0 and returns an object with *)
(* a metadata map, the main path reports SUCCESS, Data is the restriction   *)
(* of that metadata to the five output keys that are present, and the       *)
(* PhysicalResourceId is the object's selfLink.                             *)
WellFormedOutput ==
    /\ outp.t = "json"
    /\ IsDict(outp.v)
    /\ s_metadata \in DOMAIN outp.v.m
    /\ IsDict(outp.v.m[s_metadata])
Restriction(md) == [k \in OutputKeys \cap DOMAIN md |-> md[k]]
C4_CreateSuccessReport ==
    (event.RequestType = "Create" /\ WellFormedOutput)
    => \A i \in 1..Len(reports) :
         reports[i].by = "main" =>
           LET body == reports[i].body
               md == outp.v.m[s_metadata].m
           IN  /\ body.Status = SUCCESS
               /\ IF Restriction(md) = <<>> THEN ~HasData(body)
                  ELSE HasData(body) /\ body.Data = PDict(Restriction(md))
               /\ s_selfLink \in DOMAIN md
               /\ body.PhysicalResourceId = md[s_selfLink]

(* C5, as claimed: a Delete whose id matches the fallback pattern issues no *)
(* delete command and its main path reports SUCCESS without Data; a Delete  *)
(* whose id does not match has issued the delete command exactly once,      *)
(* against the normalized manifest, when its main path is done.             *)
NormalizedManifest ==
    LET named == generate_name(event, event.PhysicalResourceId)
    IN  IF named.ok THEN fix_types(named.v) ELSE None
DeleteCommand == [mode |-> "delete", manifest |-> NormalizedManifest]
C6_UpdateKeepsId ==
    (event.RequestType = "Update" /\ HasId)
    => /\ \A i \in 1..Len(reports) :
            reports[i].body.PhysicalResourceId = event.PhysicalResourceId
       /\ \A j \in 1..Len(commands) : commands[j].mode = "apply"

\* An Update has applied its manifest, and both the watchdog and the main
\* path have reported.
C6_Witness ==
    /\ event.RequestType = "Update"
    /\ HasId
    /\ event.PhysicalResourceId # PStr(context.log_stream_name)
    /\ Len(commands) = 1
    /\ Len(reports) = 2
    /\ \E i \in 1..2 : reports[i].by = "main" /\ reports[i].body.Status = SUCCESS

(* C7, as claimed: when a main-path step raised, the main path's report is  *)
(* FAILED, its Reason is the raised message and its PhysicalResourceId is   *)
(* the request's id if it has one, else the log stream name.                *)
C7_FailureReport ==
    \A i \in 1..Len(reports) :
        (reports[i].by = "main" /\ error_message # None) =>
            /\ reports[i].body.Status = FAILED
            /\ reports[i].body.Reason = error_message
            /\ reports[i].body.PhysicalResourceId = RequestOrContextId

(* C7, amended: when a main-path step raised, the main path's report is     *)
(* FAILED, its Reason is the raised message when that message is not empty  *)
(* and the default pointer to the log stream when it is empty, and its      *)
(* PhysicalResourceId is the request's id if it has one, else the log       *)
(* stream name.                                                             *)
C7_FailureReportOrDefaultReason ==
    \A i \in 1..Len(reports) :
        (reports[i].by = "main" /\ error_message # None) =>
            /\ reports[i].body.Status = FAILED
            /\ reports[i].body.Reason =
                  IF error_message.text # "" THEN error_message
                  ELSE [t |-> "default", stream |-> context.log_stream_name]
            /\ reports[i].body.PhysicalResourceId = RequestOrContextId

\* kubectl exited non-zero with output, and the main path reported it for a
\* request without an id.
C7_Witness ==
    /\ ~HasId
    /\ Len(commands) = 1
    /\ outp = None
    /\ error_message = Msg("Error from server")
    /\ \E i \in 1..Len(reports) :
         /\ reports[i].by = "main"
         /\ reports[i].body.Reason = error_message
         /\ reports[i].body.PhysicalResourceId = PStr(context.log_stream_name)

(* C8, as claimed: a Delete carrying the id from the FAILED report of a     *)
(* Create that carried none issues no delete command, and its main path     *)
(* reports SUCCESS.                                                         *)
AfterFailedCreate ==
    /\ prev.RequestType = "Create"
    /\ ~prev.hadId
    /\ prev.status = FAILED
    /\ event.RequestType = "Delete"
    /\ HasId
    /\ event.PhysicalResourceId = prev.reported
C9_WatchdogReport ==
    \A i \in 1..Len(reports) :
        reports[i].by = "watchdog" =>
            /\ reports[i].body.Status = FAILED
            /\ ~HasData(reports[i].body)
            /\ reports[i].body.PhysicalResourceId = RequestOrContextId

\* The watchdog has reported for a request with an id while the main path
\* is still fetching the configuration.
C9_Witness ==
    /\ pc = "create_kubeconfig"
    /\ HasId
    /\ event.PhysicalResourceId = PStr(SelfLinkX)
    /\ Len(reports) = 1
    /\ reports[1].by = "watchdog"

(* C10: the main path sends its report only after the timer has been        *)
(* cancelled; a timer cancelled while still waiting never fires and never   *)
(* reports; and a timer thread that has ended stays ended for the rest of   *)
(* the invocation.                                                          *)
C10_Step ==
    /\ Len(MainReports') > Len(MainReports) => finished
    /\ (finished /\ timer_pc = "waiting")
          => /\ timer_pc' \in {"waiting", "done"}
             /\ WatchdogReports' = WatchdogReports
    /\ (timer_pc = "done" /\ timer_pc' # "none")
          => /\ timer_pc' = "done"
             /\ WatchdogReports' = WatchdogReports
C10_CancelBeforeSend == [][C10_Step]_vars

\* The main path reported alone and the timer thread ended without firing.
C10_Witness ==
    /\ pc = "done"
    /\ timer_pc = "done"
    /\ finished
    /\ Len(reports) = 1
    /\ reports[1].by = "main"

(* C11: for every request kind, when KubeConfigPath is not of the form      *)
(* s3://bucket/key or the manifest is not a map, no kubectl command is      *)
(* executed in the invocation and the main path's report is FAILED with     *)
(* the raised message as Reason.                                            *)
\* "s3://", then a bucket, then a '/' that starts the key
S3Form(p) ==
    /\ Len(p) > 5
    /\ SubSeq(p, 1, 5) = <<"s", "3", ":", "/", "/">>
    /\ \E i \in 6..Len(p) : p[i] = "/"
BadRequest ==
    /\ event # NoEvent
    /\ \/ ~S3Form(event.ResourceProperties.KubeConfigPath)
       \/ event.ResourceProperties.Manifest.t # "dict"
C11_ValidationBeforeCommands ==
    BadRequest
    => /\ commands = <<>>
       /\ cluster \subseteq {"prev"}
       /\ \A i \in 1..Len(reports) :
            reports[i].by = "main" =>
               /\ reports[i].body.Status = FAILED
               /\ error_message.t = "msg"
               /\ reports[i].body.Reason = error_message

\* A request with a manifest that is not a map got through configuration
\* retrieval and was reported FAILED by the main path.
C11_Witness ==
    /\ event # NoEvent
    /\ S3Form(event.ResourceProperties.KubeConfigPath)
    /\ event.ResourceProperties.Manifest.t = "str"
    /\ pc = "done"
    /\ commands = <<>>
    /\ \E i \in 1..Len(reports) :
         /\ reports[i].by = "main"
         /\ reports[i].body.Status = FAILED
         /\ reports[i].body.Reason = Msg("object has no attribute 'keys'")

(* C12: the external tool is never retried: an invocation executes at most  *)
(* one command, in the mode of its request kind (Create: create, Update:    *)
(* apply, Delete: delete), and no step issues a command after one has been  *)
(* issued or after a step has raised.                                       *)
ModeOfKind(cmd) ==
    \/ event.RequestType = "Create" /\ cmd.mode = "create"
    \/ event.RequestType = "Update" /\ cmd.mode = "apply"
    \/ event.RequestType = "Delete" /\ cmd.mode = "delete"
C12_NoRetry ==
    /\ [](Len(commands) <= 1)
    /\ [](\A j \in 1..Len(commands) : ModeOfKind(commands[j]))
    /\ [][Len(commands') > Len(commands)
            => commands = <<>> /\ error_message = None]_vars

\* kubectl exited non-zero and the invocation ended with that one command.
C12_Witness ==
    /\ pc = "done"
    /\ Len(commands) = 1
    /\ outp = None
    /\ status = FAILED
    /\ \E i \in 1..Len(reports) : reports[i].by = "main"

(* C20: a Delete request without a PhysicalResourceId never reaches the     *)
(* external tool: no command is issued (the pattern test raises first),     *)
(* and the main path reports FAILED with the log stream name as             *)
(* PhysicalResourceId.                                                      *)
C20_DeleteWithoutId ==
    (event.RequestType = "Delete" /\ ~HasId)
    => /\ commands = <<>>
       /\ pc # "run_command"
       /\ \A i \in 1..Len(reports) :
            reports[i].by = "main" =>
               /\ reports[i].body.Status = FAILED
               /\ reports[i].body.PhysicalResourceId = PStr(context.log_stream_name)

\* The pattern test of a Delete without id raised and the main path reported.
C20_Witness ==
    /\ event.RequestType = "Delete"
    /\ ~HasId
    /\ manifest # None
    /\ pc = "done"
    /\ error_message = Msg("expected string or bytes-like object")
    /\ \E i \in 1..Len(reports) :
         reports[i].by = "main" /\ reports[i].body.Status = FAILED

(* C14: type coercion is idempotent: applying fix_types to a value that     *)
(* fix_types returned gives that value again.                               *)
C14_CoerceIdempotent ==
    (Len(calls) = 2 /\ calls[2].fn = "fix_types")
    => calls[2].ret = calls[1].ret

\* fix_types was applied twice to a nested value whose leaves it changed.
C14_Witness ==
    /\ Len(calls) = 2
    /\ calls[2].fn = "fix_types"
    /\ Depth(input) = 2
    /\ calls[1].ret # input
    /\ calls[2].args = <<calls[1].ret>>

(* C15: fix_types(v) has the shape of v (same keys, same list lengths and   *)
(* order) and differs from v only at string leaves: "true"/"false" in any   *)
(* case become booleans, a string of decimal digits becomes the integer it  *)
(* denotes, every other string and every non-string scalar is unchanged.    *)
RECURSIVE CoercedAsClaimed(_)
CoercedAsClaimed(v) ==
    IF IsDict(v) THEN PDict([k \in DOMAIN v.m |-> CoercedAsClaimed(v.m[k])])
    ELSE IF IsList(v) THEN PList([i \in 1..Len(v.l) |-> CoercedAsClaimed(v.l[i])])
    ELSE IF IsStr(v)
    THEN IF lower(v.s) = s_true THEN PBool(TRUE)
         ELSE IF lower(v.s) = s_false THEN PBool(FALSE)
         ELSE IF v.s # <<>> /\ \A i \in 1..Len(v.s) : v.s[i] \in Digits
         THEN PInt(int(v.s))
         ELSE v
    ELSE v
C15_CoerceShapeAndLeaves ==
    (calls # <<>> /\ calls[1].fn = "fix_types")
    => calls[1].ret = CoercedAsClaimed(calls[1].args[1])

(* ------------------------- reference for the walks ---------------------- *)
\* v has a node at the address p (a sequence of key and index segments)
RECURSIVE HasNode(_, _)
HasNode(v, p) ==
    \/ p = <<>>
    \/ /\ p # <<>>
       /\ IsDict(v) /\ IsStr(p[1]) /\ p[1].s \in DOMAIN v.m
       /\ HasNode(v.m[p[1].s], Tail(p))
    \/ /\ p # <<>>
       /\ IsList(v) /\ IsList(p[1]) /\ Len(p[1].l) = 1
       /\ p[1].l[1].n + 1 \in 1..Len(v.l)
       /\ HasNode(v.l[p[1].l[1].n + 1], Tail(p))

\* v with the node at address p, if there is one, replaced by action a of it
RECURSIVE ApplyAt(_, _, _)
ApplyAt(v, p, a) ==
    IF p = <<>> THEN action(a, v)
    ELSE IF ~HasNode(v, p) THEN v
    ELSE IF IsDict(v)
    THEN PDict([v.m EXCEPT ![p[1].s] = ApplyAt(v.m[p[1].s], Tail(p), a)])
    ELSE PList([v.l EXCEPT ![p[1].l[1].n + 1] =
                   ApplyAt(v.l[p[1].l[1].n + 1], Tail(p), a)])

\* The ordered key and index segments written in an address string
RECURSIVE SegmentsOf(_)
SegmentsOf(s) ==
    IF s = <<>> THEN <<>>
    ELSE IF s[1] = "." THEN SegmentsOf(Tail(s))
    ELSE IF IndexEnd(s, 1) # 0
    THEN <<idx(int(SubSeq(s, 2, IndexEnd(s, 1) - 1)))>>
         \o SegmentsOf(SubSeq(s, IndexEnd(s, 1) + 1, Len(s)))
    ELSE LET stops == {i \in 2..Len(s) : s[i] \in {".", "["}}
             n == IF stops = {} THEN Len(s)
                  ELSE (CHOOSE i \in stops : \A j \in stops : i <= j) - 1
         IN  <<PStr(SubSeq(s, 1, n))>> \o SegmentsOf(SubSeq(s, n + 1, Len(s)))

\* s ends in a bracketed index
EndsInIndex(s) == \E i \in 1..Len(s) : IndexEnd(s, i) = Len(s)

WalkCall == calls # <<>> /\ calls[1].fn = "traverse_modify"

(* C16: the empty address matches the root: for a scalar root v and any     *)
(* action, traverse_modify(v, "", action) is action(v).                     *)
C16_EmptyAddressIsRoot ==
    (/\ WalkCall
     /\ calls[1].args[2] = PStr(<<>>)
     /\ ~IsDict(calls[1].args[1]) /\ ~IsList(calls[1].args[1]))
    => calls[1].ret = action(calls[1].args[3], calls[1].args[1])

(* C17: for an address string ending in a bracketed index, to_path gives    *)
(* exactly the key and index segments written in the string, and            *)
(* traverse_modify with that string applies the action to the node at that  *)
(* list position.                                                           *)
C17_TrailingIndexAddress ==
    (/\ WalkCall
     /\ IsStr(calls[1].args[2])
     /\ EndsInIndex(calls[1].args[2].s))
    => /\ to_path(calls[1].args[2]) = SegmentsOf(calls[1].args[2].s)
       /\ calls[1].ret = ApplyAt(calls[1].args[1],
                                 SegmentsOf(calls[1].args[2].s), calls[1].args[3])

(* C18: traverse_modify changes at most the node at the target address:     *)
(* the result is the argument with that node replaced by the action's       *)
(* result; when no node has the target address the result equals the        *)
(* argument; the argument itself is left as it was.                         *)
C18_WalkAtFrame ==
    WalkCall
    => LET obj == calls[1].args[1]
           target == to_path(calls[1].args[2])
       IN  /\ calls[1].ret = ApplyAt(obj, target, calls[1].args[3])
           /\ ~HasNode(obj, target) => calls[1].ret = obj /\ ~Raised(calls[1].ret)
           /\ input = obj

\* The action was applied to a node below the root that has a sibling.
C18_Witness ==
    /\ WalkCall
    /\ calls[1].args[2] = PList(<<key_a, idx(0)>>)
    /\ HasNode(input, <<key_a, idx(0)>>)
    /\ Len(input.m[<<"a">>].l) = 2
    /\ calls[1].args[3] = "set_type"
    /\ calls[1].ret # input

(* C19: for a valid address string without a trailing bracketed index,      *)
(* to_path gives as many segments as the string has non-empty components    *)
(* between dots.                                                            *)
\* The grammar of addresses: keys separated by dots, each key followed by
\* any number of bracketed indices; the empty string is the empty address.
RECURSIVE ValidFrom(_, _)
ValidFrom(s, at) ==
    IF s = <<>> THEN at \in {"key", "index"}
    ELSE CASE at = "start" ->
                s[1] \notin {".", "[", "]"} /\ ValidFrom(Tail(s), "key")
           [] at = "key" ->
                IF s[1] = "." THEN ValidFrom(Tail(s), "start")
                ELSE IF IndexEnd(s, 1) # 0
                THEN ValidFrom(SubSeq(s, IndexEnd(s, 1) + 1, Len(s)), "index")
                ELSE s[1] \notin {"[", "]"} /\ ValidFrom(Tail(s), "key")
           [] at = "index" ->
                IF s[1] = "." THEN ValidFrom(Tail(s), "start")
                ELSE /\ IndexEnd(s, 1) # 0
                     /\ ValidFrom(SubSeq(s, IndexEnd(s, 1) + 1, Len(s)), "index")
Valid(s) == s = <<>> \/ ValidFrom(s, "start")
NumComponents(s) ==
    Cardinality({i \in 1..Len(split(s, ".")) : split(s, ".")[i] # <<>>})
C19_ParseLength ==
    (/\ calls # <<>>
     /\ calls[1].fn = "to_path"
     /\ Valid(calls[1].args[1].s)
     /\ ~EndsInIndex(calls[1].args[1].s))
    => Len(calls[1].ret) = NumComponents(calls[1].args[1].s)

(* C13, as claimed: for every manifest, stack id and optional earlier id,   *)
(* generate_name returns the manifest unchanged when it has no metadata map *)
(* or the metadata has name or generateName; otherwise it sets              *)
(* metadata.name to the last '/'-separated part of the id when there is     *)
(* one, and metadata.generateName to "cfn-" + lower-cased stack name + "-"  *)
(* when there is none, the stack name being the second '/'-separated part   *)
(* of the stack id.                                                         *)
NamerCall == calls # <<>> /\ calls[1].fn = "generate_name"
HasMetadataMap(m) ==
    IsDict(m) /\ s_metadata \in DOMAIN m.m /\ IsDict(m.m[s_metadata])
SecondPart(sid) == IF Len(split(sid, "/")) >= 2 THEN split(sid, "/")[2] ELSE <<>>
LastPart(id) == split(id, "/")[Len(split(id, "/"))]
WithMetadata(m, k, v) ==
    PDict([x \in DOMAIN m.m |->
             IF x = s_metadata
             THEN PDict([y \in DOMAIN m.m[x].m \cup {k} |->
                           IF y = k THEN v ELSE m.m[x].m[y]])
             ELSE m.m[x]])
NamedAsClaimed(m, sid, id) ==
    IF ~HasMetadataMap(m) THEN m
    ELSE IF {s_name, s_generateName} \cap DOMAIN m.m[s_metadata].m # {} THEN m
    ELSE IF Truthy(id) THEN WithMetadata(m, s_name, PStr(LastPart(id.s)))
    ELSE WithMetadata(m, s_generateName,
                      PStr(s_cfn \o lower(SecondPart(sid)) \o <<"-">>))
C13_NameFor ==
    NamerCall
    => calls[1].ret =
          Ok(NamedAsClaimed(calls[1].args[1], calls[1].args[2], calls[1].args[3]))

(* C13, amended: the above holds when the manifest is a map whose metadata, *)
(* if present, is a map, and the stack id has a second '/'-separated part;  *)
(* for every other input generate_name raises.                              *)
NameableInput(m, sid) ==
    /\ IsDict(m)
    /\ s_metadata \in DOMAIN m.m => IsDict(m.m[s_metadata])
    /\ Len(split(sid, "/")) >= 2
C13_NameForWellFormed ==
    NamerCall
    => IF NameableInput(calls[1].args[1], calls[1].args[2])
       THEN calls[1].ret =
              Ok(NamedAsClaimed(calls[1].args[1], calls[1].args[2], calls[1].args[3]))
       ELSE ~calls[1].ret.ok

\* A manifest with other content got the name at the end of a self link.
C13_Witness ==
    /\ NamerCall
    /\ calls[1].args[3] = PStr(SelfLinkX)
    /\ HasMetadataMap(input)
    /\ DOMAIN input.m # {s_metadata}
    /\ calls[1].ret.ok
    /\ calls[1].ret.v # input
    /\ calls[1].ret.v.m[s_metadata].m[s_name] = PStr(<<"x">>)

====
